---- MODULE Spec2Model ----
(***************************************************************************)
(* Sheet-to-ledger normalization pipeline of expense-consolidation.        *)
(*                                                                         *)
(* Text that the code inspects character by character (raw Amount cells,   *)
(* Description cells, the exclusion pattern, sheet URLs and the cache      *)
(* file) is a sequence of one-character strings.  Text the code only       *)
(* copies (Date cells, column names, tab titles, messages) is a string.    *)
(***************************************************************************)
EXTENDS Integers, Sequences, FiniteSets, TLC

\* ------------------------------------------------------------------ bounds

\* longest source list handed to parseSheets
MaxSources == 3
\* parseSheets calls in one behaviour
MaxRuns == 2
\* longest enumerated raw Amount cell
MaxLen == 4
\* longest provider listing
MaxFiles == 2
\* getSheetUrls calls in one behaviour
MaxOps == 3

VARIABLES
    \* --- SheetsParser instance (load_data.py 67-74)
    exclude_regex,   \* self.exclude_regex: NoRegex or a compiled pattern
    all_expenses,    \* self.all_expenses: sequence of data frames
    summary_data,    \* self.summary_data: sequence of outcome dicts
    \* --- the process around it
    exclude_arg,     \* the --exclude-regex argument of this configuration
    sheet_urls,      \* the source list of this configuration
    ledgerFile,      \* output/combined_expenses.csv: NoFile or its table
    printed,         \* what pprint.pp wrote in the latest parseSheets call
    lastLog,         \* which branch of lines 84-97 the latest call took
    crashed,         \* an exception left parseSheets
    runs,            \* parseSheets calls so far
    calls,           \* parseSheets calls on the current instance
    lastFresh,       \* the latest parseSheets call was an instance's first
    \* --- getSheetUrls (load_data.py 28-63)
    cacheFile,       \* cached_sheet_urls.txt: NoFile or its characters
    returned,        \* the latest value getSheetUrls returned
    queries,         \* provider queries made so far
    lastOp,          \* "none", "live", "cache" or "raised"
    ops,             \* getSheetUrls calls so far
    \* --- one Amount cell through one sheet
    raw,             \* the raw Amount cell
    outcome,         \* Pending, or the result of _parseSingleSheet on it
    fromCents        \* the amountCents whose rendering `raw` is, or NoCents

vars == <<exclude_regex, all_expenses, summary_data, exclude_arg, sheet_urls,
          ledgerFile, printed, lastLog, crashed, runs, calls, lastFresh,
          cacheFile, returned, queries, lastOp, ops,
          raw, outcome, fromCents>>

parserVars == <<exclude_regex, all_expenses, summary_data, exclude_arg,
                sheet_urls, ledgerFile, printed, lastLog, crashed, runs, calls,
                lastFresh>>
cacheVars == <<cacheFile, returned, queries, lastOp, ops>>
amountVars == <<raw, outcome, fromCents>>

\* a file that does not exist; None as the exclusion pattern
NoFile == [exists |-> FALSE, columns |-> <<>>, rows |-> <<>>]
NoRegex == [given |-> FALSE, pattern |-> <<>>]
Pattern(p) == [given |-> TRUE, pattern |-> p]

\* ------------------------------------------------------------ text helpers

Range(s) == {s[i] : i \in 1..Len(s)}

RECURSIVE Flatten(_)
Flatten(ss) == IF ss = <<>> THEN <<>> ELSE Head(ss) \o Flatten(Tail(ss))

\* the characters str.strip / str.rstrip / float() treat as whitespace
Whitespace == {" ", "\n", "\t"}

RECURSIVE RStrip(_)
RStrip(s) ==
    IF s = <<>> THEN <<>>
    ELSE IF s[Len(s)] \in Whitespace THEN RStrip(SubSeq(s, 1, Len(s) - 1))
    ELSE s

RECURSIVE LStrip(_)
LStrip(s) ==
    IF s = <<>> THEN <<>>
    ELSE IF Head(s) \in Whitespace THEN LStrip(Tail(s))
    ELSE s

\* re.search of a pattern without metacharacters: substring containment
Contains(s, pat) ==
    \E i \in 0..(Len(s) - Len(pat)) : SubSeq(s, i + 1, i + Len(pat)) = pat

Digit == {"0", "1", "2", "3", "4", "5", "6", "7", "8", "9"}

DigitVal(c) ==
    CASE c = "0" -> 0 [] c = "1" -> 1 [] c = "2" -> 2 [] c = "3" -> 3
      [] c = "4" -> 4 [] c = "5" -> 5 [] c = "6" -> 6 [] c = "7" -> 7
      [] c = "8" -> 8 [] c = "9" -> 9

DigitChar(d) ==
    CASE d = 0 -> "0" [] d = 1 -> "1" [] d = 2 -> "2" [] d = 3 -> "3"
      [] d = 4 -> "4" [] d = 5 -> "5" [] d = 6 -> "6" [] d = 7 -> "7"
      [] d = 8 -> "8" [] d = 9 -> "9"

RECURSIVE DigitsValue(_)
DigitsValue(s) ==
    IF s = <<>> THEN 0
    ELSE 10 * DigitsValue(SubSeq(s, 1, Len(s) - 1)) + DigitVal(s[Len(s)])

RECURSIVE Pow10(_)
Pow10(n) == IF n = 0 THEN 1 ELSE 10 * Pow10(n - 1)

RECURSIVE NatToChars(_)
NatToChars(n) ==
    IF n < 10 THEN <<DigitChar(n)>>
    ELSE Append(NatToChars(n \div 10), DigitChar(n % 10))

\* ------------------------------------------------- Amount -> amountCents

\* .str.replace(r"[,\$]", "", regex=True): every ',' and '$' is removed
\* (variant: the character class holds '$' alone)
RemoveOnlyDollar(s) == SelectSeq(s, LAMBDA c : c # "$")
RemoveCommaDollar(s) == SelectSeq(s, LAMBDA c : c \notin {",", "$"})

\* .replace("", "0"): Series.replace matches whole values, so only the
\* exactly empty string becomes "0"; nothing is trimmed.
\* (.fillna("0") follows: get_all_values yields strings, never NaN.)
ReplaceEmpty(s) == IF s = <<>> THEN <<"0">> ELSE s

\* .astype(float) on an object column: Python's float(str).  Surrounding
\* whitespace is ignored, one sign is allowed, then digits with at most one
\* point and at least one digit.  (Exponents, underscores, "inf" and "nan"
\* are also accepted by float(); no enumerated cell holds their characters.)
\* The value is kept exact: sign, all digits as one integer, and the number
\* of digits after the point.
NotAFloat == [ok |-> FALSE, neg |-> FALSE, num |-> 0, scale |-> 0]

Decimal(ip, fp, neg) ==
    IF Range(ip) \subseteq Digit /\ Range(fp) \subseteq Digit
       /\ Len(ip) + Len(fp) >= 1
    THEN [ok |-> TRUE, neg |-> neg, num |-> DigitsValue(ip \o fp),
          scale |-> Len(fp)]
    ELSE NotAFloat

\* the first point, or one past the end
PointIndex(u) ==
    IF \E i \in 1..Len(u) : u[i] = "."
    THEN CHOOSE i \in 1..Len(u) : u[i] = "." /\ \A j \in 1..(i - 1) : u[j] # "."
    ELSE Len(u) + 1

SplitAtPoint(u, p, neg) ==
    Decimal(SubSeq(u, 1, p - 1), SubSeq(u, p + 1, Len(u)), neg)

Unsigned(u, neg) == SplitAtPoint(u, PointIndex(u), neg)

Signed(t) ==
    IF t # <<>> /\ t[1] \in {"+", "-"}
    THEN Unsigned(Tail(t), t[1] = "-")
    ELSE Unsigned(t, FALSE)

PyFloat(s) == Signed(RStrip(LStrip(s)))

\* .mul(100).round().astype(int): numpy rounds halves to even.  The product
\* is a binary64; for the magnitudes modelled it is within rounding of the
\* exact decimal product whenever that is not an exact half, and no
\* enumerated cell has a digit 5 past the second fractional place.
RoundHalfEven(n, d) ==
    IF 2 * (n % d) > d \/ (2 * (n % d) = d /\ (n \div d) % 2 = 1)
    THEN (n \div d) + 1
    ELSE n \div d

MulRound(f) ==
    IF f.neg THEN 0 - RoundHalfEven(f.num * 100, Pow10(f.scale))
    ELSE RoundHalfEven(f.num * 100, Pow10(f.scale))

\* the cell's result: converted, or float() raised ValueError
\* (variant: a cell that is no number counts as 0)
ToCentsLenient(f) ==
    IF f.ok THEN [ok |-> TRUE, cents |-> MulRound(f)]
    ELSE [ok |-> TRUE, cents |-> 0]
ToCents(f) ==
    IF f.ok THEN [ok |-> TRUE, cents |-> MulRound(f)]
    ELSE [ok |-> FALSE, cents |-> 0]

\* load_data.py 142-151: the conversion of one Amount cell
AmountCents(s) == ToCents(PyFloat(ReplaceEmpty(RemoveCommaDollar(s))))

\* main.py 79: .str.replace(r"\((.*?)\)", r"-\1", regex=True): each "(", up
\* to the nearest following ")", becomes "-" and the text between them
FirstAt(s, c, from) ==
    IF \E i \in from..Len(s) : s[i] = c
    THEN CHOOSE i \in from..Len(s) : s[i] = c /\ \A j \in from..(i - 1) : s[j] # c
    ELSE 0

RECURSIVE ParenToMinus(_)
ReplaceGroup(s, i, j) ==
    IF i = 0 \/ j = 0 THEN s
    ELSE SubSeq(s, 1, i - 1) \o <<"-">> \o SubSeq(s, i + 1, j - 1)
             \o ParenToMinus(SubSeq(s, j + 1, Len(s)))
OpenAt(s, i) == ReplaceGroup(s, i, IF i = 0 THEN 0 ELSE FirstAt(s, ")", i + 1))
ParenToMinus(s) == OpenAt(s, FirstAt(s, "(", 1))

\* main.py 76-84: the historical conversion (parentheses negate, an empty
\* cell is not replaced)
AmountCentsMain(s) == ToCents(PyFloat(ParenToMinus(RemoveCommaDollar(s))))

\* report.py 64 and 67: amountCents / 100.0 as jsonify writes it (the
\* shortest decimal that reads back as the same binary64: the two-place
\* decimal without trailing zeros, at least one fractional digit kept)
Hundredths(f) ==
    IF f % 10 = 0 THEN <<DigitChar(f \div 10)>>
    ELSE <<DigitChar(f \div 10), DigitChar(f % 10)>>
Unsigned100(a) == NatToChars(a \div 100) \o <<".">> \o Hundredths(a % 100)
AmountDollars(c) ==
    IF c < 0 THEN <<"-">> \o Unsigned100(0 - c) ELSE Unsigned100(c)

\* ------------------------------------------------------------ data frames
\* A frame is [columns: sequence of names, rows: sequence of rows]; a row
\* maps each column name to its cell.

required_cols == {"Date", "Description", "Amount"}

\* pd.DataFrame(data, columns=header), header without repeated names
IndexOf(header, c) == CHOOSE i \in 1..Len(header) : header[i] = c
DataFrame(data, header) ==
    [columns |-> header,
     rows |-> [i \in 1..Len(data) |->
                  [c \in Range(header) |-> data[i][IndexOf(header, c)]]]]

\* df[[col for col in df.columns if col in keep]]
Project(df, keep) ==
    [columns |-> SelectSeq(df.columns, LAMBDA c : c \in keep),
     rows |-> [i \in 1..Len(df.rows) |->
                  [c \in Range(df.columns) \cap keep |-> df.rows[i][c]]]]

\* lines 126-128: df.drop(columns=["Accounted"]) when the column is there
DropAccounted(df) ==
    IF "Accounted" \in Range(df.columns)
    THEN Project(df, Range(df.columns) \ {"Accounted"})
    ELSE df

\* lines 131-139: rows whose Description the pattern is found in are dropped
\* (variant: the mask is computed and never applied)
ExcludeNothing(df, regex) == df
ApplyExclude(df, regex) ==
    IF regex.given
    THEN [df EXCEPT !.rows =
             SelectSeq(df.rows,
                       LAMBDA r : ~Contains(r["Description"], regex.pattern))]
    ELSE df

\* lines 142-152: the amountCents column is added and Amount dropped
WithAmountCents(df) ==
    [columns |-> Append(SelectSeq(df.columns, LAMBDA c : c # "Amount"),
                        "amountCents"),
     rows |-> [i \in 1..Len(df.rows) |->
                  [c \in (Range(df.columns) \ {"Amount"}) \cup {"amountCents"} |->
                      IF c = "amountCents"
                      THEN AmountCents(df.rows[i]["Amount"]).cents
                      ELSE df.rows[i][c]]]]

\* pd.concat(frames, ignore_index=True): rows in frame order; columns in
\* order of first appearance (every frame here has the same column set)
RECURSIVE ConcatRows(_)
ConcatRows(frames) ==
    IF frames = <<>> THEN <<>>
    ELSE Head(frames).rows \o ConcatRows(Tail(frames))
Concat(frames) == [columns |-> frames[1].columns, rows |-> ConcatRows(frames)]

\* combined_df.to_csv(file_path, index=False): the file holds the table
ToCsv(df) == [exists |-> TRUE, columns |-> df.columns, rows |-> df.rows]

\* ----------------------------------------------------------- the sources
\* What gspread serves for each URL: whether the spreadsheet opens, its tab
\* titles, and the grid of the "Expenses" tab as get_all_values returns it.

Coffee == <<"C", "o", "f", "f", "e", "e">>
Rent == <<"R", "e", "n", "t">>
Tea == <<"T", "e", "a">>

Unreachable == [opens |-> FALSE, titles |-> {}, expenses |-> <<>>]
Tabs(titles, grid) == [opens |-> TRUE, titles |-> titles, expenses |-> grid]

StdHeader == <<"Date", "Description", "Amount">>

Sheets ==
    [u \in {"u/down", "u/notab", "u/empty", "u/nocols", "u/hdr",
            "u/A", "u/C", "u/paren"} |->
        CASE u = "u/down" -> Unreachable
          [] u = "u/notab" -> Tabs({"Sheet1"}, <<>>)
          [] u = "u/empty" -> Tabs({"Sheet1", "Expenses"}, <<>>)
          [] u = "u/nocols" ->
                Tabs({"Expenses"},
                     << <<"Date", "Description">>, <<"03/01/2024", Tea>> >>)
          [] u = "u/hdr" -> Tabs({"Expenses"}, <<StdHeader>>)
          [] u = "u/A" ->
                Tabs({"Expenses"},
                     <<StdHeader,
                       <<"01/15/2024", Coffee, <<"$", "3", ".", "5", "0">> >>,
                       <<"01/16/2024", Rent,
                         <<"1", ",", "2", "0", "0", ".", "0", "0">> >> >>)
          [] u = "u/C" ->
                Tabs({"Expenses", "Notes"},
                     << <<"Description", "Accounted", "Date", "Amount">>,
                        <<Tea, "yes", "02/01/2024", <<>> >> >>)
          [] u = "u/paren" ->
                Tabs({"Expenses"},
                     <<StdHeader,
                       <<"01/15/2024", Coffee, <<"$", "3", ".", "5", "0">> >>,
                       <<"01/16/2024", Rent,
                         <<"(", "1", "2", "0", "0", ".", "0", "0", ")">> >> >>)]

Urls == DOMAIN Sheets

\* ------------------------------------------------------ _parseSingleSheet

Raise(exc, detail, cols) ==
    [kind |-> "raise", exc |-> exc, detail |-> detail, cols |-> cols]
Return(value) == [kind |-> "return", value |-> value]

Status(kind, detail, cols) == [kind |-> kind, detail |-> detail, cols |-> cols]
OK == Status("OK", "", {})

\* lines 142-159: the conversion of the Amount column (one cell that
\* float() rejects raises for the whole column) and the returned dict
Convert(url, df) ==
    IF \E i \in 1..Len(df.rows) : ~AmountCents(df.rows[i]["Amount"]).ok
    THEN Raise("ValueError", "could not convert string to float", {})
    ELSE Return([sheet_url |-> url, rows |-> Len(df.rows), status |-> OK,
                 df |-> WithAmountCents(df)])

\* lines 114-139: header and data, the required columns, the projection
\* and the exclusion filter
CheckColumns(url, header, data, regex) ==
    IF required_cols \ Range(header) # {}
    THEN Raise("AssertionError", "Missing columns",
               required_cols \ Range(header))
    ELSE Convert(url,
                 ApplyExclude(
                     DropAccounted(
                         Project(DataFrame(data, header), required_cols)),
                     regex))

\* lines 111-112
ReadRows(url, rows, regex) ==
    IF rows = <<>> THEN Raise("AssertionError", "No data found", {})
    ELSE CheckColumns(url, rows[1], Tail(rows), regex)

\* lines 103-159: the body of the try block on client `gc`
TryBody(gc, url, regex) ==
    IF url \notin DOMAIN gc \/ ~gc[url].opens
    THEN Raise("APIError", "cannot open", {})
    ELSE IF "Expenses" \notin gc[url].titles
    THEN Raise("AssertionError", "'Expenses' tab missing", {})
    ELSE ReadRows(url, gc[url].expenses, regex)

\* lines 161-166: the two handlers.  Every exception the body raises is an
\* Exception; an AssertionError is caught by the first handler.
Failure(url, kind, r) ==
    Return([sheet_url |-> url, rows |-> 0,
            status |-> Status(kind, r.detail, r.cols)])

\* (variant: the second handler is missing)
HandleAssertionOnly(url, r) ==
    IF r.kind = "raise" /\ r.exc = "AssertionError"
    THEN Failure(url, "Assertion failed", r)
    ELSE r

Handle(url, r) ==
    IF r.kind # "raise" THEN r
    ELSE IF r.exc = "AssertionError" THEN Failure(url, "Assertion failed", r)
    ELSE Failure(url, "Error", r)

ParseSingleSheet(gc, url, regex) == Handle(url, TryBody(gc, url, regex))

\* ------------------------------------------------------------ parseSheets

\* line 81: the dict without its "df"
Summary(result) == [k \in DOMAIN result \ {"df"} |-> result[k]]

\* lines 79-81: one result enters the accumulators
\* (variant: the frame is inserted at the front)
CollectFirst(acc, result) ==
    [acc EXCEPT
        !.all_expenses =
            IF result.rows > 0 /\ "df" \in DOMAIN result
            THEN <<result.df>> \o @ ELSE @,
        !.summary_data = Append(@, Summary(result))]
Collect(acc, result) ==
    [acc EXCEPT
        !.all_expenses =
            IF result.rows > 0 /\ "df" \in DOMAIN result
            THEN Append(@, result.df) ELSE @,
        !.summary_data = Append(@, Summary(result))]

\* lines 77-81: the loop; an exception leaving _parseSingleSheet ends it
RECURSIVE Loop(_, _, _, _)
LoopStep(gc, urls, regex, acc, r) ==
    IF r.kind = "raise" THEN [acc EXCEPT !.crashed = TRUE]
    ELSE Loop(gc, Tail(urls), regex, Collect(acc, r.value))
Loop(gc, urls, regex, acc) ==
    IF urls = <<>> THEN acc
    ELSE LoopStep(gc, urls, regex, acc,
                  ParseSingleSheet(gc, Head(urls), regex))

\* lines 84-97: the ledger file after the loop.  to_csv opens the path for
\* writing, so what it writes replaces the file.
\* (variants: an empty table is written when no frame was collected; the
\* rows are appended to the file that is there)
WriteAlways(frames, file) ==
    IF frames # <<>> THEN ToCsv(Concat(frames))
    ELSE ToCsv([columns |-> <<"Date", "Description", "amountCents">>,
                rows |-> <<>>])
WriteAppending(frames, file) ==
    IF frames # <<>>
    THEN IF file.exists THEN [file EXCEPT !.rows = @ \o ConcatRows(frames)]
         ELSE ToCsv(Concat(frames))
    ELSE file
WriteLedger(frames, file) ==
    IF frames # <<>> THEN ToCsv(Concat(frames)) ELSE file

LogLine(frames) ==
    IF frames # <<>> THEN "Saved combined expenses" ELSE "No expenses compiled."

\* lines 83-99 after the loop ended with accumulators `acc`
Finish(acc, file) ==
    [all_expenses |-> acc.all_expenses,
     summary_data |-> acc.summary_data,
     crashed |-> acc.crashed,
     file |-> IF acc.crashed THEN file ELSE WriteLedger(acc.all_expenses, file),
     log |-> IF acc.crashed THEN "" ELSE LogLine(acc.all_expenses),
     printed |-> IF acc.crashed THEN <<>> ELSE acc.summary_data]

\* the whole call on an instance with fields `self`
ParseSheetsResult(gc, urls, self, file) ==
    Finish(Loop(gc, urls, self.exclude_regex,
                [all_expenses |-> self.all_expenses,
                 summary_data |-> self.summary_data,
                 crashed |-> FALSE]),
           file)

\* lines 67-74: a new instance; an empty pattern is no pattern (line 74)
Compile(arg) == IF ~arg.given \/ arg.pattern = <<>> THEN NoRegex ELSE arg
NewInstance(arg) ==
    [exclude_regex |-> Compile(arg), all_expenses |-> <<>>, summary_data |-> <<>>]

\* ------------------------------------------------- the pipeline's actions

RECURSIVE SeqsUpTo(_, _)
Longer(S, shorter, n) ==
    shorter \cup {Append(s, x) : s \in {t \in shorter : Len(t) = n - 1}, x \in S}
SeqsUpTo(S, n) ==
    IF n = 0 THEN {<<>>} ELSE Longer(S, SeqsUpTo(S, n - 1), n)

ExcludeArgs == {NoRegex, Pattern(<<>>), Pattern(<<"R", "e">>)}

\* the ledger an earlier run left: none, or that of a run over one source
PriorLedgers ==
    {NoFile,
     ParseSheetsResult(Sheets, <<"u/C">>, NewInstance(NoRegex), NoFile).file}

NoCache == [exists |-> FALSE, text |-> <<>>]
Pending == [kind |-> "pending"]
NoCents == [known |-> FALSE, cents |-> 0]

idleParser ==
    /\ exclude_arg = NoRegex /\ sheet_urls = <<>> /\ ledgerFile = NoFile
    /\ exclude_regex = NoRegex /\ all_expenses = <<>> /\ summary_data = <<>>
    /\ printed = <<>> /\ lastLog = "" /\ crashed = FALSE
    /\ runs = 0 /\ calls = 0 /\ lastFresh = FALSE
idleCache ==
    /\ cacheFile = NoCache /\ returned = <<>> /\ queries = 0
    /\ lastOp = "none" /\ ops = 0
idleAmount == raw = <<>> /\ outcome = Pending /\ fromCents = NoCents

Init ==
    /\ exclude_arg \in ExcludeArgs
    /\ sheet_urls \in SeqsUpTo(Urls, MaxSources)
    /\ ledgerFile \in PriorLedgers
    /\ exclude_regex = Compile(exclude_arg)
    /\ all_expenses = <<>>
    /\ summary_data = <<>>
    /\ printed = <<>>
    /\ lastLog = ""
    /\ crashed = FALSE
    /\ runs = 0
    /\ calls = 0
    /\ lastFresh = FALSE
    /\ idleCache
    /\ idleAmount

\* main, line 198: SheetsParser(CREDENTIALS_FILE, exclude_regex=...)
NewParser ==
    /\ ~crashed
    /\ runs < MaxRuns
    /\ \E self \in {NewInstance(exclude_arg)} :
           /\ exclude_regex' = self.exclude_regex
           /\ all_expenses' = self.all_expenses
           /\ summary_data' = self.summary_data
    /\ calls' = 0
    /\ UNCHANGED <<exclude_arg, sheet_urls, ledgerFile, printed, lastLog,
                   crashed, runs, lastFresh>>
    /\ UNCHANGED cacheVars
    /\ UNCHANGED amountVars

\* main, line 199: parser.parseSheets(sheet_urls) on the current instance
ParseSheets ==
    /\ ~crashed
    /\ runs < MaxRuns
    /\ \E res \in {ParseSheetsResult(
                       Sheets, sheet_urls,
                       [exclude_regex |-> exclude_regex,
                        all_expenses |-> all_expenses,
                        summary_data |-> summary_data],
                       ledgerFile)} :
           /\ all_expenses' = res.all_expenses
           /\ summary_data' = res.summary_data
           /\ crashed' = res.crashed
           /\ ledgerFile' = res.file
           /\ lastLog' = res.log
           /\ printed' = res.printed
    /\ runs' = runs + 1
    /\ calls' = calls + 1
    /\ lastFresh' = (calls = 0)
    /\ UNCHANGED <<exclude_regex, exclude_arg, sheet_urls>>
    /\ UNCHANGED cacheVars
    /\ UNCHANGED amountVars

Next == NewParser \/ ParseSheets

Spec == Init /\ [][Next]_vars

\* ----------------------------------------------------------- getSheetUrls

\* line 57: f"https://docs.google.com/spreadsheets/d/{f['id']}"
UrlPrefix ==
    <<
      "h", "t", "t", "p", "s", ":", "/", "/", "d", "o", "c", "s", ".",
      "g", "o", "o", "g", "l", "e", ".", "c", "o", "m", "/", "s", "p",
      "r", "e", "a", "d", "s", "h", "e", "e", "t", "s", "/", "d", "/"
    >>
SheetUrl(id) == UrlPrefix \o id

\* lines 55-59: one URL per listed file, in the provider's order
UrlsOf(files) == [i \in 1..Len(files) |-> SheetUrl(files[i])]

\* lines 30-31: open(mode="w") empties the file, writelines writes each URL
\* followed by a newline
\* (variant: the file is opened for appending)
AppendSheetUrlsToCache(urls, old) ==
    [exists |-> TRUE,
     text |-> old.text \o Flatten([i \in 1..Len(urls) |-> urls[i] \o <<"\n">>])]
WriteSheetUrlsToCache(urls, old) ==
    [exists |-> TRUE,
     text |-> Flatten([i \in 1..Len(urls) |-> urls[i] \o <<"\n">>])]

\* iterating a text file: each line ends after its newline; text after the
\* last newline is a final line
RECURSIVE FileLines(_)
CutLine(text, n) ==
    IF n = 0 THEN <<text>>
    ELSE <<SubSeq(text, 1, n)>> \o FileLines(SubSeq(text, n + 1, Len(text)))
FileLines(text) ==
    IF text = <<>> THEN <<>> ELSE CutLine(text, FirstAt(text, "\n", 1))

\* lines 38-39: [line.rstrip() for line in file]
StripLines(lines) == [i \in 1..Len(lines) |-> RStrip(lines[i])]
GetSheetUrlsFromCache(file) == StripLines(FileLines(file.text))

\* Drive file ids (letters, digits, '-' and '_'; never whitespace)
FileIds == {<<"a">>, <<"b">>, <<"a", "-", "b">>}

\* what the provider may list: no id twice
Listings ==
    {l \in SeqsUpTo(FileIds, MaxFiles) :
        \A i, j \in 1..Len(l) : l[i] = l[j] => i = j}

\* the cache file an earlier process left: none, one written by a live
\* query, or one edited by hand (a repeated line, a trailing blank, an empty
\* line, no final newline)
PriorCaches ==
    {NoCache,
     WriteSheetUrlsToCache(UrlsOf(<< <<"b">> >>), NoCache),
     [exists |-> TRUE,
      text |-> <<"x", " ", "\n", "\n", "x", "\n", "y">>]}

InitCache ==
    /\ cacheFile \in PriorCaches
    /\ returned = <<>>
    /\ queries = 0
    /\ lastOp = "none"
    /\ ops = 0
    /\ idleParser
    /\ idleAmount

\* getSheetUrls(from_cache=False), lines 47-63, the provider listing `files`
LiveQuery ==
    /\ ops < MaxOps
    /\ \E files \in Listings :
           /\ returned' = UrlsOf(files)
           /\ cacheFile' = WriteSheetUrlsToCache(UrlsOf(files), cacheFile)
    /\ queries' = queries + 1
    /\ lastOp' = "live"
    /\ ops' = ops + 1
    /\ UNCHANGED parserVars
    /\ UNCHANGED amountVars

\* getSheetUrls(from_cache=False) when the credentials or the query fail:
\* lines 48-52 raise before the cache is touched
LiveQueryFails ==
    /\ ops < MaxOps
    /\ queries' = queries + 1
    /\ lastOp' = "live raised"
    /\ ops' = ops + 1
    /\ UNCHANGED <<cacheFile, returned>>
    /\ UNCHANGED parserVars
    /\ UNCHANGED amountVars

\* getSheetUrls(from_cache=True), lines 44-45 and 34-42
FromCache ==
    /\ ops < MaxOps
    /\ cacheFile.exists
    /\ returned' = GetSheetUrlsFromCache(cacheFile)
    /\ lastOp' = "cache"
    /\ ops' = ops + 1
    /\ UNCHANGED <<cacheFile, queries>>
    /\ UNCHANGED parserVars
    /\ UNCHANGED amountVars

\* getSheetUrls(from_cache=True) without a cache file: open() raises
FromCacheMissing ==
    /\ ops < MaxOps
    /\ ~cacheFile.exists
    /\ lastOp' = "cache raised"
    /\ ops' = ops + 1
    /\ UNCHANGED <<cacheFile, returned, queries>>
    /\ UNCHANGED parserVars
    /\ UNCHANGED amountVars

NextCache == LiveQuery \/ LiveQueryFails \/ FromCache \/ FromCacheMissing

SpecCache == InitCache /\ [][NextCache]_vars

\* ------------------------------------------------ one Amount cell alone

\* the characters enumerated cells are made of; the digits leave out 5, so
\* no enumerated cell is an exact half of a cent (see MulRound)
AmountAlphabet == {"$", ",", ".", " ", "(", "-", "0", "1", "7"}

ExampleCells ==
    {<<"$", "1", ",", "2", "3", "4", ".", "5", "0">>,
     <<"$", "3", ".", "5", "0">>,
     <<"(", "1", "2", "0", "0", ".", "0", "0", ")">>,
     <<"9", "9", ".", "9", "9">>,
     <<"1", "2">>}

AmountCells == SeqsUpTo(AmountAlphabet, MaxLen) \cup ExampleCells

\* a source whose "Expenses" tab holds one data row with Amount `cell`
CellSheet(cell) ==
    [u \in {"u/cell"} |->
        Tabs({"Expenses"}, <<StdHeader, <<"01/15/2024", Coffee, cell>> >>)]

InitAmount ==
    /\ raw \in AmountCells
    /\ outcome = Pending
    /\ fromCents = NoCents
    /\ idleParser
    /\ idleCache

\* _parseSingleSheet on the one-row source
ParseCell ==
    /\ outcome = Pending
    /\ outcome' = ParseSingleSheet(CellSheet(raw), "u/cell", NoRegex)
    /\ UNCHANGED <<raw, fromCents>>
    /\ UNCHANGED parserVars
    /\ UNCHANGED cacheVars

\* the parsed amount is rendered (report.py 64) and becomes the next cell
Rerender ==
    /\ outcome # Pending
    /\ outcome.value.status = OK
    /\ ~fromCents.known
    /\ \E c \in {outcome.value.df.rows[1]["amountCents"]} :
           /\ raw' = AmountDollars(c)
           /\ fromCents' = [known |-> TRUE, cents |-> c]
    /\ outcome' = Pending
    /\ UNCHANGED parserVars
    /\ UNCHANGED cacheVars

NextAmount == ParseCell \/ Rerender

SpecAmount == InitAmount /\ [][NextAmount]_vars

\* =================================================================== claims
\* What the claims speak of, stated from the sources themselves and not
\* through the operators above.

Saved == "Saved combined expenses"
NoneCompiled == "No expenses compiled."

Grid(u) == Sheets[u].expenses

\* the source opens, has the tab, has a header row with the three columns
Validates(u) ==
    /\ Sheets[u].opens
    /\ "Expenses" \in Sheets[u].titles
    /\ Grid(u) # <<>>
    /\ \A c \in {"Date", "Description", "Amount"} :
           \E k \in 1..Len(Grid(u)[1]) : Grid(u)[1][k] = c

\* the cell of data row i in the column named col
Cell(u, i, col) ==
    Grid(u)[i + 1][CHOOSE k \in 1..Len(Grid(u)[1]) : Grid(u)[1][k] = col]

\* an exclusion pattern is configured and found in the text
Excluded(text) ==
    /\ exclude_arg.given
    /\ exclude_arg.pattern # <<>>
    /\ \E a \in 1..Len(text), b \in 1..Len(text) :
           a <= b /\ SubSeq(text, a, b) = exclude_arg.pattern

\* the data rows the exclusion pattern leaves
Kept(u) ==
    {i \in 1..(Len(Grid(u)) - 1) : ~Excluded(Cell(u, i, "Description"))}

Undecorated(s) == SelectSeq(s, LAMBDA c : c # "," /\ c # "$")

\* a decimal number as float() reads it: blanks around an optional sign and
\* digits with at most one point
IsNumber(body) ==
    /\ \E k \in 1..Len(body) : body[k] \in Digit
    /\ \A k \in 1..Len(body) : body[k] \in Digit \cup {"."}
    /\ Cardinality({k \in 1..Len(body) : body[k] = "."}) <= 1
IsNumeric(s) ==
    \E i \in 0..Len(s), j \in 0..Len(s) :
        /\ i <= j
        /\ \A k \in 1..i : s[k] \in Whitespace
        /\ \A k \in (j + 1)..Len(s) : s[k] \in Whitespace
        /\ \/ IsNumber(SubSeq(s, i + 1, j))
           \/ /\ i < j
              /\ s[i + 1] \in {"+", "-"}
              /\ IsNumber(SubSeq(s, i + 2, j))

\* an Amount that is neither empty nor a number once ',' and '$' are gone
Malformed(s) == Undecorated(s) # <<>> /\ ~IsNumeric(Undecorated(s))

HasMalformed(u) == \E i \in Kept(u) : Malformed(Cell(u, i, "Amount"))

\* the source yields records
Clean(u) == Validates(u) /\ ~HasMalformed(u)

\* the outcome each kind of source must get
ExpectedKind(u) ==
    IF ~Sheets[u].opens THEN "Error"
    ELSE IF ~Validates(u) THEN "Assertion failed"
    ELSE IF HasMalformed(u) THEN "Error"
    ELSE "OK"

RECURSIVE SumSeq(_)
SumSeq(s) == IF s = <<>> THEN 0 ELSE Head(s) + SumSeq(Tail(s))

\* the records one source hands to the aggregator
SourceRecords(u) ==
    IF "df" \in DOMAIN ParseSingleSheet(Sheets, u, exclude_regex).value
    THEN ParseSingleSheet(Sheets, u, exclude_regex).value.df.rows
    ELSE <<>>

\* a parseSheets call on a fresh instance has just been made
FreshRunDone == calls = 1 /\ lastFresh

ExampleABC == <<"u/A", "u/notab", "u/C">>

\* C1: no error leaves _parseSingleSheet or parseSheets whatever the mix of
\* sources; after a call on a fresh instance the status report has exactly
\* one outcome per source, in source order, of the kind the source calls
\* for, and is printed whether or not a ledger was written.
C1_FailureIsolation ==
    /\ ~crashed
    /\ FreshRunDone =>
           /\ Len(summary_data) = Len(sheet_urls)
           /\ \A i \in 1..Len(sheet_urls) :
                  /\ summary_data[i].sheet_url = sheet_urls[i]
                  /\ summary_data[i].status.kind = ExpectedKind(sheet_urls[i])
           /\ printed = summary_data

C1_Witness ==
    /\ FreshRunDone
    /\ sheet_urls = <<"u/down", "u/paren", "u/nocols">>
    /\ lastLog = NoneCompiled
    /\ Len(printed) = 3

\* C2: when some source succeeds with records, the ledger written by a call
\* on a fresh instance is the records of the OK sources, in source order and
\* row order, and nothing else; for [A, B(no tab), C] it is A's two records
\* then C's one, with B reported as a failed assertion.
C2_LedgerIsConcatenation ==
    (FreshRunDone /\ \E i \in 1..Len(summary_data) :
                         summary_data[i].status = OK /\ summary_data[i].rows > 0)
    => /\ ledgerFile.exists
       /\ lastLog = Saved
       /\ ledgerFile.rows =
              Flatten([i \in 1..Len(sheet_urls) |->
                          IF summary_data[i].status = OK
                          THEN SourceRecords(sheet_urls[i]) ELSE <<>>])
       /\ (sheet_urls = ExampleABC /\ ~exclude_regex.given) =>
              /\ ledgerFile.rows =
                     <<[Date |-> "01/15/2024", Description |-> Coffee,
                        amountCents |-> 350],
                       [Date |-> "01/16/2024", Description |-> Rent,
                        amountCents |-> 120000],
                       [Date |-> "02/01/2024", Description |-> Tea,
                        amountCents |-> 0]>>
              /\ Len(summary_data) = 3
              /\ summary_data[2].status.kind = "Assertion failed"

C2_Witness ==
    /\ FreshRunDone
    /\ sheet_urls = ExampleABC
    /\ ~exclude_regex.given
    /\ Len(ledgerFile.rows) = 3

NoSourceSucceeds ==
    \A i \in 1..Len(sheet_urls) :
        ~Clean(sheet_urls[i]) \/ Kept(sheet_urls[i]) = {}

C4_ParenthesizedExample ==
    (FreshRunDone /\ sheet_urls = <<"u/paren">> /\ ~exclude_regex.given)
    => /\ summary_data[1].status = OK
       /\ summary_data[1].rows = 2
       /\ ledgerFile.exists
       /\ Len(ledgerFile.rows) = 2
       /\ ledgerFile.rows[1]["amountCents"] = 350
       /\ ledgerFile.rows[2]["amountCents"] \in {-120000, 120000}

\* C7: in the report of a call on a fresh instance an OK outcome has rows =
\* the data rows the exclusion pattern leaves = the records the source
\* contributes, any other outcome has rows = 0, and a written ledger has as
\* many records as the rows of the report add up to.
C7_RowCountConservation ==
    FreshRunDone =>
        /\ Len(summary_data) = Len(sheet_urls)
        /\ \A i \in 1..Len(sheet_urls) :
               /\ summary_data[i].status = OK =>
                      /\ summary_data[i].rows = Cardinality(Kept(sheet_urls[i]))
                      /\ summary_data[i].rows = Len(SourceRecords(sheet_urls[i]))
               /\ summary_data[i].status # OK => summary_data[i].rows = 0
        /\ lastLog = Saved =>
               Len(ledgerFile.rows) =
                   SumSeq([i \in 1..Len(summary_data) |-> summary_data[i].rows])

C7_Witness ==
    /\ FreshRunDone
    /\ sheet_urls = <<"u/A", "u/paren", "u/down">>
    /\ exclude_regex.given
    /\ lastLog = Saved
    /\ Len(ledgerFile.rows) = 2

\* C9 as claimed: a second parseSheets call over the same sources, on a
\* fresh instance or on the same one, leaves ledger and status report as the
\* first call produced them.
C9_SecondCallIdentical ==
    [][(runs' = runs + 1 /\ runs >= 1 /\ lastFresh)
       => (ledgerFile' = ledgerFile /\ printed' = printed)]_vars

\* C9 as amended: two successive calls that are each made on a fresh
\* instance produce the same ledger and the same status report; a call on an
\* instance that was used before prints the old report followed by the new
\* outcomes, and a ledger it writes holds the records once more.
C9_FreshRunsIdentical ==
    [][/\ (runs' = runs + 1 /\ runs >= 1 /\ lastFresh /\ calls = 0)
          => (ledgerFile' = ledgerFile /\ printed' = printed)
       /\ (runs' = runs + 1 /\ calls >= 1)
          => /\ printed' = printed \o SubSeq(printed, 1, Len(sheet_urls))
             /\ lastLog' = Saved =>
                    Len(ledgerFile'.rows) * calls
                        = Len(ledgerFile.rows) * (calls + 1)]_vars

C9_Witness ==
    /\ runs = 2
    /\ FreshRunDone
    /\ Len(sheet_urls) = 3
    /\ lastLog = Saved
    /\ Len(ledgerFile.rows) = 3

\* C10: a source that validates but keeps a row whose Amount is malformed gets
\* outcome Error with rows = 0, the report still covers every source, and a
\* written ledger holds only the rows of the sources without such a row.
C10_StrictPerSheet ==
    FreshRunDone =>
        /\ Len(summary_data) = Len(sheet_urls)
        /\ \A i \in 1..Len(sheet_urls) :
               (Validates(sheet_urls[i]) /\ HasMalformed(sheet_urls[i]))
               => /\ summary_data[i].status.kind = "Error"
                  /\ summary_data[i].rows = 0
        /\ lastLog = Saved =>
               Len(ledgerFile.rows) =
                   SumSeq([i \in 1..Len(sheet_urls) |->
                              IF Clean(sheet_urls[i])
                              THEN Cardinality(Kept(sheet_urls[i])) ELSE 0])

C10_Witness ==
    /\ FreshRunDone
    /\ sheet_urls = <<"u/paren", "u/A">>
    /\ ~exclude_regex.given
    /\ summary_data[1].status.kind = "Error"
    /\ lastLog = Saved
    /\ Len(ledgerFile.rows) = 2

\* --- one Amount cell (specification SpecAmount)

Parsed == outcome # Pending
ParsedOK == Parsed /\ outcome.value.status = OK /\ outcome.value.rows = 1
CentsOut == outcome.value.df.rows[1]["amountCents"]

\* digits, then optionally a point and at most two digits; a digit somewhere
LeadingDigits(s) ==
    CHOOSE k \in 0..Len(s) :
        /\ \A i \in 1..k : s[i] \in Digit
        /\ k < Len(s) => s[k + 1] \notin Digit
IsPlainNumeral(s) ==
    /\ s # <<>>
    /\ \/ LeadingDigits(s) = Len(s)
       \/ /\ s[LeadingDigits(s) + 1] = "."
          /\ Len(s) - LeadingDigits(s) - 1 <= 2
          /\ \A i \in (LeadingDigits(s) + 2)..Len(s) : s[i] \in Digit
          /\ Len(s) >= 2

\* the numeral's value times 100, digit by digit
RECURSIVE PlaceValue(_, _)
PlaceValue(s, unit) ==
    IF s = <<>> THEN 0
    ELSE DigitVal(s[Len(s)]) * unit
             + PlaceValue(SubSeq(s, 1, Len(s) - 1), unit * 10)
NumeralCents(s) ==
    PlaceValue(SubSeq(s, 1, LeadingDigits(s)), 100)
    + (IF Len(s) >= LeadingDigits(s) + 2
       THEN 10 * DigitVal(s[LeadingDigits(s) + 2]) ELSE 0)
    + (IF Len(s) >= LeadingDigits(s) + 3
       THEN DigitVal(s[LeadingDigits(s) + 3]) ELSE 0)

\* C5: a cell that is an unsigned numeral with at most two fractional digits,
\* decorated with '$' and ',', is kept with amountCents = its value times
\* 100; "$1,234.50" gives 123450, "12" gives 1200, the empty cell gives 0;
\* and the rendering of a parsed amount parses back to the same amountCents.
C5_AmountParsing ==
    Parsed =>
        /\ IsPlainNumeral(Undecorated(raw)) =>
               ParsedOK /\ CentsOut = NumeralCents(Undecorated(raw))
        /\ raw = <<"$", "1", ",", "2", "3", "4", ".", "5", "0">> =>
               ParsedOK /\ CentsOut = 123450
        /\ raw = <<"1", "2">> => ParsedOK /\ CentsOut = 1200
        /\ raw = <<>> => ParsedOK /\ CentsOut = 0
        /\ fromCents.known => ParsedOK /\ CentsOut = fromCents.cents

C5_Witness ==
    /\ ParsedOK
    /\ fromCents.known
    /\ fromCents.cents = 123450
    /\ raw = <<"1", "2", "3", "4", ".", "5">>
    /\ CentsOut = 123450

BlankOnceUndecorated(s) ==
    \A i \in 1..Len(s) : s[i] \in {",", "$"} \cup Whitespace

\* C6 as claimed: a cell that is blank once ',' and '$' are removed is kept
\* with amountCents = 0.
C6_BlankIsZero ==
    (Parsed /\ BlankOnceUndecorated(raw)) => (ParsedOK /\ CentsOut = 0)

\* --- getSheetUrls (specification SpecCache)

NewlineCount(text) == Cardinality({i \in 1..Len(text) : text[i] = "\n"})

\* the text from just after the (n-1)th newline up to the nth newline
NthLine(text, n) ==
    LET ends == {i \in 1..Len(text) : text[i] = "\n"}
        e == CHOOSE i \in ends : Cardinality({j \in ends : j <= i}) = n
        b == IF n = 1 THEN 0
             ELSE CHOOSE i \in ends : Cardinality({j \in ends : j <= i}) = n - 1
    IN  SubSeq(text, b + 1, e - 1)

\* C8: a live query leaves a cache file that holds exactly the URLs it
\* returns, one per line, in order; a read from the cache changes neither
\* the file nor the number of provider queries, returns one entry per line
\* (repeats included), and after a live query or another read returns what
\* that call returned.
C8_CacheRoundTrip ==
    [][/\ lastOp' = "live" /\ ops' = ops + 1
          => /\ cacheFile'.exists
             /\ NewlineCount(cacheFile'.text) = Len(returned')
             /\ Len(cacheFile'.text) = SumSeq([i \in 1..Len(returned') |->
                                                  Len(returned'[i]) + 1])
             /\ \A i \in 1..Len(returned') :
                    NthLine(cacheFile'.text, i) = returned'[i]
       /\ lastOp' \in {"cache", "cache raised"} /\ ops' = ops + 1
          => /\ cacheFile' = cacheFile
             /\ queries' = queries
       /\ lastOp' = "cache" /\ ops' = ops + 1
          => /\ Len(returned') =
                    NewlineCount(cacheFile.text)
                    + (IF cacheFile.text # <<>>
                          /\ cacheFile.text[Len(cacheFile.text)] # "\n"
                       THEN 1 ELSE 0)
             /\ lastOp \in {"live", "cache"} => returned' = returned]_vars

C8_Witness ==
    /\ lastOp = "cache"
    /\ ops = 3
    /\ queries = 2
    /\ Len(returned) = 2
    /\ returned[1] = SheetUrl(<<"a", "-", "b">>)
    /\ cacheFile.text = returned[1] \o <<"\n">> \o returned[2] \o <<"\n">>

====
